---------------------------- MODULE Spec2Model ----------------------------
(***************************************************************************)
(* Model of github.com/aabishkaryal/go-urlshortner.                         *)
(*                                                                         *)
(* Package urlshort (src/unnamed/part_000; src/handler.go is an earlier    *)
(* copy of the same MapHandler / YAMLHandler / pathSliceToMapConversion)   *)
(* builds http handlers that redirect the paths of a table and delegate    *)
(* every other request to a fallback handler.  Command main                *)
(* (src/main/main.go) nests four such handlers around a ServeMux and       *)
(* serves the outermost one.                                               *)
(*                                                                         *)
(* Two specifications:                                                     *)
(*   Spec     the process started by main: startup, then requests;         *)
(*   LibSpec  an arbitrary client of package urlshort, which calls the     *)
(*            constructors with any table, content and file state and      *)
(*            sends requests to the handler it built.                      *)
(*                                                                         *)
(* Representation.                                                         *)
(*   A path is the sequence of its segments: "/" is << >>, "/a/b" is       *)
(*   <<"a","b">>, "//a" is <<"","a">>, "/a/" is <<"a","">>.                *)
(*   A URL is a record [scheme, host, rooted, segs]: scheme and host are   *)
(*   "" for a relative reference, rooted says whether the path part starts *)
(*   with "/".  Query strings and non-ASCII bytes are not modelled.        *)
(*   A handler is a value: the closure MapHandler returns is the record    *)
(*   of what it captured, [kind |-> "map", table, fallback].               *)
(*   A ResponseWriter/trace pair is [writes, calls]: the responses written *)
(*   so far and the handlers whose ServeHTTP has been entered, in order.   *)
(***************************************************************************)
EXTENDS Integers, Sequences, FiniteSets, TLC

VARIABLES pc, mux, mapHandler, yamlHandler, jsonFileHandler, yamlFileHandler,
          err, h, last

vars == <<pc, mux, mapHandler, yamlHandler, jsonFileHandler, yamlFileHandler,
          err, h, last>>

mainVars == <<pc, mux, mapHandler, yamlHandler, jsonFileHandler,
              yamlFileHandler, err>>

(***************************************************************************)
(* Bounds of the model.                                                    *)
(***************************************************************************)
\* Longest list of records in a YAML/JSON document.
MaxRecords == 2
\* Deepest nesting of MapHandlers a client of the package builds (LibSpec).
MaxDepth == 2

(***************************************************************************)
(* Values.                                                                 *)
(***************************************************************************)
\* Go's nil handler and nil error.
Nil == [kind |-> "nil"]
ErrNil == "nil"
\* The error ioutil.ReadFile returns, and the one yaml/json.Unmarshal returns.
FileReadError == "file-read-error"
ParseError == "parse-error"

StatusOK == 200
StatusMovedPermanently == 301
StatusFound == 302

AbsURL(scheme, host, segs) ==
    [scheme |-> scheme, host |-> host, rooted |-> TRUE, segs |-> segs]
RelURL(rooted, segs) ==
    [scheme |-> "", host |-> "", rooted |-> rooted, segs |-> segs]

\* The empty ResponseWriter and trace of a fresh request.
EmptyExchange == [writes |-> << >>, calls |-> << >>]

(***************************************************************************)
(* path.Clean and its two users in net/http.                               *)
(***************************************************************************)
RECURSIVE CleanSegs(_, _)
\* path.Clean of a rooted path: drops empty and "." segments, lets ".."
\* remove the segment before it (and nothing at the root).
CleanSegs(segs, acc) ==
    IF segs = << >> THEN acc
    ELSE LET s == Head(segs)
         IN  CleanSegs(Tail(segs),
                 IF s = "" \/ s = "." THEN acc
                 ELSE IF s = ".."
                      THEN (IF acc = << >> THEN acc
                            ELSE SubSeq(acc, 1, Len(acc) - 1))
                      ELSE Append(acc, s))

\* "clean up but preserve trailing slash" (http.Redirect, http.cleanPath).
CleanKeepSlash(segs) ==
    LET np == CleanSegs(segs, << >>)
        trailing == segs # << >> /\ segs[Len(segs)] = ""
    IN  IF trailing /\ np # << >> THEN Append(np, "") ELSE np

\* net/http cleanPath: the canonical form of a request path.
cleanPath(p) == CleanKeepSlash(p)

\* The Location http.Redirect sets for url on request r ("the provided url
\* may be a path relative to the request path", net/http): a url with a
\* scheme or host is sent as it is; one with neither is made absolute
\* against the directory of the request path unless it starts with "/", and
\* is then cleaned.
RedirectLocation(url, r) ==
    IF url.scheme = "" /\ url.host = ""
    THEN LET oldpath == r.path
             olddir == IF oldpath = << >> THEN << >>
                       ELSE SubSeq(oldpath, 1, Len(oldpath) - 1)
             joined == IF url.rooted THEN url.segs
                       ELSE olddir \o (IF url.segs = << >> /\ olddir # << >>
                                       THEN <<"">> ELSE url.segs)
         IN  RelURL(TRUE, CleanKeepSlash(joined))
    ELSE url

StatusText(code) ==
    IF code = StatusFound THEN "Found"
    ELSE IF code = StatusMovedPermanently THEN "Moved Permanently"
    ELSE "OK"

\* http.Redirect(rw, r, url, code): one response with the status code, the
\* Location header and, for a GET, a short HTML body linking to it.
Redirect(st, r, url, code) ==
    [st EXCEPT !.writes = Append(@,
        [status |-> code,
         Location |-> RedirectLocation(url, r),
         body |-> IF r.method = "GET"
                  THEN "<a href=Location>" \o StatusText(code) \o "</a>.\n\n"
                  ELSE ""])]

(***************************************************************************)
(* Handlers.                                                               *)
(***************************************************************************)
\* hello (main.go): Fprintln on a fresh ResponseWriter sends status 200 and
\* the greeting.
hello(st, r) ==
    [st EXCEPT !.writes = Append(@,
        [status |-> StatusOK, body |-> "Hello, world!\n"])]

\* Variant: hello registered on "/hello" only.
defaultMuxHelloOnly == [kind |-> "mux", patterns |-> {<<"hello">>}]

\* defaultMux (main.go): a ServeMux with hello registered on the pattern "/".
defaultMux == [kind |-> "mux", patterns |-> {<< >>}]

\* (*ServeMux).ServeHTTP: a request whose path is not in canonical form is
\* answered with a 301 to the cleaned path ("ServeMux also takes care of
\* sanitizing the URL request path ... redirecting any request containing .
\* or .. elements or repeated slashes", net/http); otherwise the pattern "/",
\* when registered, matches every path and its handler hello runs, and with
\* no matching pattern the reply is 404.  Every modelled path starts with
\* "/"; CONNECT requests and the request target "*" are not modelled.
ServeMuxServeHTTP(m, st, r) ==
    LET path == cleanPath(r.path)
    IN  IF path # r.path
        THEN Redirect(st, r, RelURL(TRUE, path), StatusMovedPermanently)
        ELSE IF << >> \in m.patterns
             THEN hello(st, r)
             ELSE [st EXCEPT !.writes = Append(@,
                      [status |-> 404, body |-> "404 page not found\n"])]

\* A handler of the package's client (LibSpec): it writes one response of
\* its own.
ClientHandler(status) == [kind |-> "client", status |-> status]

RECURSIVE ServeHTTP(_, _, _)

\* Variants of the closure with one slip each: the redirect sent with the
\* wrong status; the return after the redirect left out; the delegation to
\* the fallback left out.
MapHandlerFuncMovedPermanently(pathsToUrls, fallbackHandler, st, r) ==
    IF r.path \in DOMAIN pathsToUrls
    THEN Redirect(st, r, pathsToUrls[r.path], StatusMovedPermanently)
    ELSE ServeHTTP(fallbackHandler, st, r)

MapHandlerFuncNoReturn(pathsToUrls, fallbackHandler, st, r) ==
    IF r.path \in DOMAIN pathsToUrls
    THEN ServeHTTP(fallbackHandler,
                   Redirect(st, r, pathsToUrls[r.path], StatusFound), r)
    ELSE ServeHTTP(fallbackHandler, st, r)

MapHandlerFuncNoDelegate(pathsToUrls, fallbackHandler, st, r) ==
    IF r.path \in DOMAIN pathsToUrls
    THEN Redirect(st, r, pathsToUrls[r.path], StatusFound)
    ELSE st

\* The closure MapHandler returns, on the values it captured.
MapHandlerFunc(pathsToUrls, fallbackHandler, st, r) ==
    LET currentPath == r.path
    IN  IF currentPath \in DOMAIN pathsToUrls
        THEN Redirect(st, r, pathsToUrls[currentPath], StatusFound)
        ELSE ServeHTTP(fallbackHandler, st, r)

\* Handler.ServeHTTP: dynamic dispatch on the handler value.  Calling a nil
\* handler panics; net/http recovers the panic and writes nothing.
ServeHTTP(handler, st, r) ==
    LET entered == [st EXCEPT !.calls = Append(@, handler)]
    IN  CASE handler.kind = "map" ->
                MapHandlerFunc(handler.table, handler.fallback, entered, r)
          [] handler.kind = "mux" -> ServeMuxServeHTTP(handler, entered, r)
          [] handler.kind = "client" ->
                [entered EXCEPT !.writes = Append(@,
                    [status |-> handler.status, body |-> "client"])]
          [] OTHER -> entered

MapHandler(pathsToUrls, fallbackHandler) ==
    [kind |-> "map", table |-> pathsToUrls, fallback |-> fallbackHandler]

(***************************************************************************)
(* Constructors from YAML and JSON.                                        *)
(*                                                                         *)
(* A document (the bytes of a file or of a literal) is either malformed    *)
(* for the parser that reads it, [kind |-> "malformed"], or a list of      *)
(* path/url entries, [kind |-> "list", items |-> <<[path, url], ...>>].    *)
(* A file state is [exists |-> FALSE] or [exists |-> TRUE, bytes |-> doc]. *)
(* Every constructor returns [handler, err] as the code does, and for the  *)
(* properties below also steps (the functions it called, in order), pUrls  *)
(* (the parsed slice) and table (the map built from it).  The variable     *)
(* last holds the most recent call: its name, its argument and what it     *)
(* returned, or for a request the handler, the request and the exchange.   *)
(***************************************************************************)
\* type pathURL
pathURL(Path, URL) == [Path |-> Path, URL |-> URL]

\* result[k] = v on a Go map.
MapAssign(result, k, v) ==
    [x \in (DOMAIN result) \cup {k} |-> IF x = k THEN v ELSE result[x]]

RECURSIVE pathSliceLoop(_, _)
\* for _, pU := range pUrls { result[pU.Path] = pU.URL }
pathSliceLoop(pUrls, result) ==
    IF pUrls = << >> THEN result
    ELSE LET pU == Head(pUrls)
         IN  pathSliceLoop(Tail(pUrls), MapAssign(result, pU.Path, pU.URL))

RECURSIVE firstWinsLoop(_, _)
firstWinsLoop(pUrls, result) ==
    IF pUrls = << >> THEN result
    ELSE LET pU == Head(pUrls)
         IN  firstWinsLoop(Tail(pUrls),
                 IF pU.Path \in DOMAIN result THEN result
                 ELSE MapAssign(result, pU.Path, pU.URL))

\* Variant: an existing key is kept.
pathSliceToMapFirstWins(pUrls) == firstWinsLoop(pUrls, << >>)

pathSliceToMapConversion(pUrls) == pathSliceLoop(pUrls, << >>)

\* yaml.Unmarshal / json.Unmarshal into []pathURL.
Unmarshal(data) ==
    IF data.kind = "list"
    THEN [out |-> [i \in 1..Len(data.items) |->
                      pathURL(data.items[i].path, data.items[i].url)],
          err |-> ErrNil]
    ELSE [out |-> << >>, err |-> ParseError]

parseYAMLToPathURL(data) ==
    LET u == Unmarshal(data)
    IN  IF u.err # ErrNil THEN [pathURLs |-> << >>, err |-> u.err]
        ELSE [pathURLs |-> u.out, err |-> ErrNil]

parseJSONToPathURL(data) ==
    LET u == Unmarshal(data)
    IN  IF u.err # ErrNil THEN [pathURLs |-> << >>, err |-> u.err]
        ELSE [pathURLs |-> u.out, err |-> ErrNil]

\* openFile: ioutil.ReadFile on the file state the disk holds for fileName.
openFile(fileName, disk) ==
    IF ~disk[fileName].exists
    THEN [fileByte |-> Nil, err |-> FileReadError]
    ELSE [fileByte |-> disk[fileName].bytes, err |-> ErrNil]

Failed(e, steps) ==
    [handler |-> Nil, err |-> e, steps |-> steps,
     pUrls |-> << >>, table |-> << >>]

\* Variant: the parse error is returned without stopping the construction.
YAMLHandlerIgnoresErr(yml, fallbackHandler) ==
    LET parsed == parseYAMLToPathURL(yml)
        pathsToURLs == pathSliceToMapConversion(parsed.pathURLs)
    IN  [handler |-> MapHandler(pathsToURLs, fallbackHandler),
         err |-> parsed.err,
         steps |-> <<"parseYAMLToPathURL",
                     "pathSliceToMapConversion", "MapHandler">>,
         pUrls |-> parsed.pathURLs,
         table |-> pathsToURLs]

YAMLHandler(yml, fallbackHandler) ==
    LET parsed == parseYAMLToPathURL(yml)
    IN  IF parsed.err # ErrNil
        THEN Failed(parsed.err, <<"parseYAMLToPathURL">>)
        ELSE LET pathsToURLs == pathSliceToMapConversion(parsed.pathURLs)
             IN  [handler |-> MapHandler(pathsToURLs, fallbackHandler),
                  err |-> ErrNil,
                  steps |-> <<"parseYAMLToPathURL",
                              "pathSliceToMapConversion", "MapHandler">>,
                  pUrls |-> parsed.pathURLs,
                  table |-> pathsToURLs]

\* Variant: the error of openFile is not checked before parsing.
JSONFileHandlerNoReadCheck(jsonFileName, fallbackHandler, disk) ==
    LET file == openFile(jsonFileName, disk)
        parsed == parseJSONToPathURL(file.fileByte)
    IN  IF parsed.err # ErrNil
        THEN Failed(parsed.err, <<"openFile", "parseJSONToPathURL">>)
        ELSE LET pathsToURLs == pathSliceToMapConversion(parsed.pathURLs)
             IN  [handler |-> MapHandler(pathsToURLs, fallbackHandler),
                  err |-> ErrNil,
                  steps |-> <<"openFile", "parseJSONToPathURL",
                              "pathSliceToMapConversion", "MapHandler">>,
                  pUrls |-> parsed.pathURLs,
                  table |-> pathsToURLs]

JSONFileHandler(jsonFileName, fallbackHandler, disk) ==
    LET file == openFile(jsonFileName, disk)
    IN  IF file.err # ErrNil THEN Failed(file.err, <<"openFile">>)
        ELSE LET parsed == parseJSONToPathURL(file.fileByte)
             IN  IF parsed.err # ErrNil
                 THEN Failed(parsed.err, <<"openFile", "parseJSONToPathURL">>)
                 ELSE LET pathsToURLs ==
                              pathSliceToMapConversion(parsed.pathURLs)
                      IN  [handler |-> MapHandler(pathsToURLs, fallbackHandler),
                           err |-> ErrNil,
                           steps |-> <<"openFile", "parseJSONToPathURL",
                                       "pathSliceToMapConversion", "MapHandler">>,
                           pUrls |-> parsed.pathURLs,
                           table |-> pathsToURLs]

YAMLFileHandler(yamlFileName, fallbackHandler, disk) ==
    LET file == openFile(yamlFileName, disk)
    IN  IF file.err # ErrNil THEN Failed(file.err, <<"openFile">>)
        ELSE LET made == YAMLHandler(file.fileByte, fallbackHandler)
             IN  [made EXCEPT !.steps = <<"openFile">> \o @]

(***************************************************************************)
(* The data of main and of the environment.                                *)
(***************************************************************************)
\* The map literal of main.
pathsToUrls ==
    (<<"urlshort-godoc">> :>
         AbsURL("https", "godoc.org", <<"github.com", "gophercises", "urlshort">>))
    @@ (<<"yaml-godoc">> :>
         AbsURL("https", "godoc.org", <<"gopkg.in", "yaml.v2">>))

GitHubURL == AbsURL("https", "github.com", <<"gophercises", "urlshort">>)

\* Variant: the first entry of the literal names another path.
yamlTypo ==
    [kind |-> "list",
     items |-> <<[path |-> <<"urlshorts">>, url |-> GitHubURL],
                 [path |-> <<"urlshort-final">>,
                  url |-> AbsURL("https", "github.com",
                                 <<"gophercises", "urlshort", "tree", "solution">>)]>>]

\* The YAML literal of main.
yaml ==
    [kind |-> "list",
     items |-> <<[path |-> <<"urlshort">>, url |-> GitHubURL],
                 [path |-> <<"urlshort-final">>,
                  url |-> AbsURL("https", "github.com",
                                 <<"gophercises", "urlshort", "tree", "solution">>)]>>]

\* The default values of the flags -json and -yaml.
jsonFileName == "paths.json"
yamlFileName == "paths.yaml"

\* What a configuration document may hold: entries for a path main's own
\* tables know and for one they do not, with an absolute and a relative url.
EntryPaths == {<<"urlshort">>, <<"a">>}
EntryUrls == {AbsURL("http", "example.com", <<"a">>), RelURL(FALSE, <<"b">>)}
Entries == [path : EntryPaths, url : EntryUrls]
Documents ==
    {[kind |-> "malformed"]}
    \cup {[kind |-> "list", items |-> s] :
            s \in UNION {[1..n -> Entries] : n \in 0..MaxRecords}}
FileStates == {[exists |-> FALSE]} \cup {[exists |-> TRUE, bytes |-> d] : d \in Documents}

\* The requests a client sends: the root, paths of each table, an unknown
\* path, and paths that are not in canonical form.
RequestPaths ==
    {<< >>, <<"urlshort">>, <<"urlshort-godoc">>, <<"a">>, <<"nonexistent">>,
     <<"", "nonexistent">>, <<"a", "..", "urlshort">>}
Requests == [path : RequestPaths, method : {"GET", "POST"}]

(***************************************************************************)
(* main.                                                                   *)
(***************************************************************************)
\* Variant: the error is dropped.
checkErrIgnored(e, next) == next

\* if err != nil { panic(err) }: where main continues after a constructor.
checkErr(e, next) == IF e # ErrNil THEN "panic" ELSE next

Init ==
    /\ pc = "defaultMux"
    /\ mux = Nil
    /\ mapHandler = Nil
    /\ yamlHandler = Nil
    /\ jsonFileHandler = Nil
    /\ yamlFileHandler = Nil
    /\ err = ErrNil
    /\ h = Nil
    /\ last = [op |-> "none"]

\* mux := defaultMux()
MainDefaultMux ==
    /\ pc = "defaultMux"
    /\ mux' = defaultMux
    /\ pc' = "MapHandler"
    /\ UNCHANGED <<mapHandler, yamlHandler, jsonFileHandler, yamlFileHandler,
                   err, h, last>>

\* mapHandler := urlshort.MapHandler(pathsToUrls, mux)
MainMapHandler ==
    /\ pc = "MapHandler"
    /\ mapHandler' = MapHandler(pathsToUrls, mux)
    /\ pc' = "YAMLHandler"
    /\ last' = [op |-> "MapHandler",
                ret |-> [handler |-> mapHandler', err |-> ErrNil,
                         steps |-> <<"MapHandler">>, pUrls |-> << >>,
                         table |-> pathsToUrls]]
    /\ UNCHANGED <<mux, yamlHandler, jsonFileHandler, yamlFileHandler, err, h>>

\* yamlHandler, err := urlshort.YAMLHandler([]byte(yaml), mapHandler)
MainYAMLHandler ==
    /\ pc = "YAMLHandler"
    /\ LET made == YAMLHandler(yaml, mapHandler)
       IN  /\ yamlHandler' = made.handler
           /\ err' = made.err
           /\ pc' = checkErr(made.err, "JSONFileHandler")
           /\ last' = [op |-> "YAMLHandler", arg |-> yaml, ret |-> made]
    /\ UNCHANGED <<mux, mapHandler, jsonFileHandler, yamlFileHandler, h>>

\* jsonFileHandler, err := urlshort.JSONFileHandler(*jsonFileName, yamlHandler)
MainJSONFileHandler ==
    /\ pc = "JSONFileHandler"
    /\ \E file \in FileStates :
         LET made == JSONFileHandler(jsonFileName, yamlHandler,
                                     jsonFileName :> file)
         IN  /\ jsonFileHandler' = made.handler
             /\ err' = made.err
             /\ pc' = checkErr(made.err, "YAMLFileHandler")
             /\ last' = [op |-> "JSONFileHandler", arg |-> file, ret |-> made]
    /\ UNCHANGED <<mux, mapHandler, yamlHandler, yamlFileHandler, h>>

\* Variant: the YAML file handler is given yamlHandler as its fallback, so
\* the JSON file handler is left out of the chain.
MainYAMLFileHandlerSkipsJSON ==
    /\ pc = "YAMLFileHandler"
    /\ \E file \in FileStates :
         LET made == YAMLFileHandler(yamlFileName, yamlHandler,
                                     yamlFileName :> file)
         IN  /\ yamlFileHandler' = made.handler
             /\ err' = made.err
             /\ pc' = checkErr(made.err, "ListenAndServe")
             /\ last' = [op |-> "YAMLFileHandler", arg |-> file, ret |-> made]
    /\ UNCHANGED <<mux, mapHandler, yamlHandler, jsonFileHandler, h>>

\* yamlFileHandler, err := urlshort.YAMLFileHandler(*yamlFileName, jsonFileHandler)
MainYAMLFileHandler ==
    /\ pc = "YAMLFileHandler"
    /\ \E file \in FileStates :
         LET made == YAMLFileHandler(yamlFileName, jsonFileHandler,
                                     yamlFileName :> file)
         IN  /\ yamlFileHandler' = made.handler
             /\ err' = made.err
             /\ pc' = checkErr(made.err, "ListenAndServe")
             /\ last' = [op |-> "YAMLFileHandler", arg |-> file, ret |-> made]
    /\ UNCHANGED <<mux, mapHandler, yamlHandler, jsonFileHandler, h>>

\* http.ListenAndServe(":8080", yamlFileHandler): the listener is up, or the
\* call returns at once (the port is taken) and main ends.
MainListenAndServe ==
    /\ pc = "ListenAndServe"
    /\ pc' \in {"serving", "exit"}
    /\ UNCHANGED <<mux, mapHandler, yamlHandler, jsonFileHandler,
                   yamlFileHandler, err, h, last>>

\* The server calls the root handler on a request.
MainServe ==
    /\ pc = "serving"
    /\ \E r \in Requests :
         last' = [op |-> "ServeHTTP", handler |-> yamlFileHandler, r |-> r,
                  st |-> ServeHTTP(yamlFileHandler, EmptyExchange, r)]
    /\ UNCHANGED <<mainVars, h>>

Next ==
    \/ MainDefaultMux
    \/ MainMapHandler
    \/ MainYAMLHandler
    \/ MainJSONFileHandler
    \/ MainYAMLFileHandler
    \/ MainListenAndServe
    \/ MainServe

Spec == Init /\ [][Next]_vars

(***************************************************************************)
(* A client of package urlshort: it starts from a handler of its own (or a *)
(* ServeMux), wraps the handler it holds with any of the four constructors *)
(* and sends requests to it.  A constructor that returns an error leaves   *)
(* the client with the handler it had.                                     *)
(***************************************************************************)
Tables == UNION {[D -> EntryUrls] : D \in SUBSET EntryPaths}
BaseHandlers == {ClientHandler(404), defaultMux}

RECURSIVE Depth(_)
Depth(handler) ==
    IF handler.kind = "map" THEN 1 + Depth(handler.fallback) ELSE 0

LibInit ==
    /\ pc = "client"
    /\ mux = Nil
    /\ mapHandler = Nil
    /\ yamlHandler = Nil
    /\ jsonFileHandler = Nil
    /\ yamlFileHandler = Nil
    /\ err = ErrNil
    /\ h \in BaseHandlers
    /\ last = [op |-> "none"]

Keep(made) == IF made.err = ErrNil THEN made.handler ELSE h

LibMapHandler ==
    /\ pc = "client"
    /\ Depth(h) < MaxDepth
    /\ \E T \in Tables :
         /\ h' = MapHandler(T, h)
         /\ last' = [op |-> "MapHandler", fallback |-> h,
                     ret |-> [handler |-> h', err |-> ErrNil,
                              steps |-> <<"MapHandler">>, pUrls |-> << >>,
                              table |-> T]]
    /\ UNCHANGED mainVars

LibYAMLHandler ==
    /\ pc = "client"
    /\ Depth(h) < MaxDepth
    /\ \E yml \in Documents :
         LET made == YAMLHandler(yml, h)
         IN  /\ h' = Keep(made)
             /\ last' = [op |-> "YAMLHandler", fallback |-> h, arg |-> yml,
                         ret |-> made]
    /\ UNCHANGED mainVars

LibJSONFileHandler ==
    /\ pc = "client"
    /\ Depth(h) < MaxDepth
    /\ \E file \in FileStates :
         LET made == JSONFileHandler(jsonFileName, h, jsonFileName :> file)
         IN  /\ h' = Keep(made)
             /\ last' = [op |-> "JSONFileHandler", fallback |-> h,
                         arg |-> file, ret |-> made]
    /\ UNCHANGED mainVars

LibYAMLFileHandler ==
    /\ pc = "client"
    /\ Depth(h) < MaxDepth
    /\ \E file \in FileStates :
         LET made == YAMLFileHandler(yamlFileName, h, yamlFileName :> file)
         IN  /\ h' = Keep(made)
             /\ last' = [op |-> "YAMLFileHandler", fallback |-> h,
                         arg |-> file, ret |-> made]
    /\ UNCHANGED mainVars

LibServe ==
    /\ pc = "client"
    /\ \E r \in Requests :
         last' = [op |-> "ServeHTTP", handler |-> h, r |-> r,
                  st |-> ServeHTTP(h, EmptyExchange, r)]
    /\ UNCHANGED <<mainVars, h>>

LibNext ==
    \/ LibMapHandler
    \/ LibYAMLHandler
    \/ LibJSONFileHandler
    \/ LibYAMLFileHandler
    \/ LibServe

LibSpec == LibInit /\ [][LibNext]_vars

(***************************************************************************)
(* Properties.                                                             *)
(***************************************************************************)
\* A url with a scheme or a host: http.Redirect sends it unchanged.
HasSchemeOrHost(url) == url.scheme # "" \/ url.host # ""

\* A path in canonical form: no "." or ".." segment and no empty segment
\* except a last one (a trailing slash).
Canonical(p) ==
    \A i \in 1..Len(p) :
        /\ p[i] \notin {".", ".."}
        /\ p[i] = "" => (i = Len(p) /\ i > 1)

\* The directory of a path: the path without its last segment.
Dir(p) == IF p = << >> THEN << >> ELSE SubSeq(p, 1, Len(p) - 1)

\* What the Location of a redirect to url is, for a request to path p.
LocationFor(loc, url, p) ==
    IF HasSchemeOrHost(url) THEN loc = url
    ELSE /\ loc.scheme = "" /\ loc.host = "" /\ loc.rooted
         /\ Canonical(loc.segs)
         /\ (url.rooted /\ Canonical(url.segs)) => loc = url
         /\ (~url.rooted /\ url.segs # << >> /\ Canonical(Dir(p) \o url.segs))
                => loc.segs = Dir(p) \o url.segs

Served == last.op = "ServeHTTP"

\* A request was sent to a MapHandler whose table has the request's path.
Hit ==
    /\ Served
    /\ last.handler.kind = "map"
    /\ last.r.path \in DOMAIN last.handler.table

\* C1 as stated: for every table T, fallback F and request whose path p is a
\* key of T, MapHandler(T, F) answers 302 with Location equal to T[p], and F
\* is not invoked.
C1_LocationIsTableUrl ==
    Hit => /\ Len(last.st.writes) = 1
           /\ last.st.writes[1].status = StatusFound
           /\ last.st.writes[1].Location = last.handler.table[last.r.path]
           /\ last.st.calls = <<last.handler>>

\* C1 amended: for every table T, fallback F and request whose path p is a
\* key of T, MapHandler(T, F) answers with exactly one response, of status
\* 302, and F is not invoked; the Location is the one http.Redirect derives
\* from T[p]: T[p] itself when T[p] has a scheme or host, and otherwise T[p]
\* made absolute against the directory of p and cleaned (a rooted path in
\* canonical form).
C1_RedirectOnHit ==
    Hit => /\ Len(last.st.writes) = 1
           /\ last.st.writes[1].status = StatusFound
           /\ LocationFor(last.st.writes[1].Location,
                          last.handler.table[last.r.path], last.r.path)
           /\ last.st.calls = <<last.handler>>

\* C1 witness: a hit on a handler that wraps another MapHandler, with an
\* absolute url in the table.
C1_Witness ==
    /\ Hit
    /\ last.handler.fallback.kind = "map"
    /\ HasSchemeOrHost(last.handler.table[last.r.path])
    /\ last.st.writes[1].Location = last.handler.table[last.r.path]

\* The handlers main nests, outermost first, once they are all built.
MainChain == <<yamlFileHandler, jsonFileHandler, yamlHandler, mapHandler>>

Greeting == [status |-> StatusOK, body |-> "Hello, world!\n"]

\* main's server answered a request whose path no table of the chain has.
Unmatched ==
    /\ pc = "serving"
    /\ Served
    /\ \A i \in 1..Len(MainChain) :
           last.r.path \notin DOMAIN MainChain[i].table

\* C2 as stated: every request whose path is a key of none of the tables of
\* main's chain is handled by the default handler and answered with status
\* 200 and the fixed greeting, for any unmatched path.
C2_UnmatchedGetsGreeting ==
    Unmatched => /\ last.st.calls[Len(last.st.calls)] = mux
                 /\ last.st.writes = <<Greeting>>

\* C2 amended: every request whose path is a key of none of the tables of
\* main's chain is handled by the default handler; when the path is in
\* canonical form the response is status 200 with the fixed greeting, for
\* any such path and not only the root; when it is not (a path with an
\* empty, "." or ".." segment) the default ServeMux does not run hello and
\* answers 301 with the cleaned path as Location.
C2_UnmatchedReachesDefault ==
    Unmatched =>
        /\ last.st.calls[Len(last.st.calls)] = mux
        /\ Canonical(last.r.path) => last.st.writes = <<Greeting>>
        /\ ~Canonical(last.r.path) =>
              /\ Len(last.st.writes) = 1
              /\ last.st.writes[1].status = StatusMovedPermanently
              /\ last.st.writes[1].Location.rooted
              /\ Canonical(last.st.writes[1].Location.segs)
              /\ last.st.writes[1].Location.segs # last.r.path

\* C2 witness: an unmatched path other than the root got the greeting.
C2_Witness ==
    /\ Unmatched
    /\ last.r.path = <<"nonexistent">>
    /\ last.st.writes = <<Greeting>>

\* A request to H2 = MapHandler(T2, H1), H1 = MapHandler(T1, D), for a path
\* that is a key of T1 and not of T2.
KnownToInnerOnly ==
    /\ Served
    /\ last.handler.kind = "map"
    /\ last.handler.fallback.kind = "map"
    /\ last.r.path \in DOMAIN last.handler.fallback.table
    /\ last.r.path \notin DOMAIN last.handler.table

\* C3 as stated: such a request gets from H2 exactly the response H1 alone
\* gives, 302 with Location T1[p], and D is not invoked.
C3_InnerLocationIsTableUrl ==
    KnownToInnerOnly =>
        LET H1 == last.handler.fallback
        IN  /\ last.st.writes = ServeHTTP(H1, EmptyExchange, last.r).writes
            /\ Len(last.st.writes) = 1
            /\ last.st.writes[1].status = StatusFound
            /\ last.st.writes[1].Location = H1.table[last.r.path]
            /\ \A i \in 1..Len(last.st.calls) : last.st.calls[i] # H1.fallback

\* C3 amended: such a request gets from H2 exactly the response H1 alone
\* gives, a single 302 whose Location is T1[p] when T1[p] has a scheme or
\* host and otherwise T1[p] made absolute against the directory of p, and D
\* is not invoked.
C3_DelegationIsTransparent ==
    KnownToInnerOnly =>
        LET H1 == last.handler.fallback
        IN  /\ last.st.writes = ServeHTTP(H1, EmptyExchange, last.r).writes
            /\ Len(last.st.writes) = 1
            /\ last.st.writes[1].status = StatusFound
            /\ LocationFor(last.st.writes[1].Location,
                           H1.table[last.r.path], last.r.path)
            /\ last.st.calls = <<last.handler, H1>>

\* C3 witness: the outer table is not empty, the path is known to the inner
\* handler only, and the redirect of the inner handler was sent.
C3_Witness ==
    /\ KnownToInnerOnly
    /\ DOMAIN last.handler.table # {}
    /\ last.st.writes[1].status = StatusFound

\* A constructor parsed a document and built its table.
Built ==
    /\ last.op \in {"YAMLHandler", "JSONFileHandler", "YAMLFileHandler"}
    /\ last.ret.err = ErrNil

\* The entries of the document the last constructor was given.
ItemsOf(arg) == IF "exists" \in DOMAIN arg THEN arg.bytes.items ELSE arg.items

\* C4: the table builder is last-write-wins: the keys of the built table are
\* exactly the paths of the records, in the order of the document, and each
\* key maps to the url of the last record with that path.
C4_LastWriteWins ==
    Built =>
        LET items == ItemsOf(last.arg)
            table == last.ret.handler.table
        IN  /\ DOMAIN table = {items[i].path : i \in 1..Len(items)}
            /\ \A k \in DOMAIN table :
                 LET n == CHOOSE i \in 1..Len(items) :
                            /\ items[i].path = k
                            /\ \A j \in (i + 1)..Len(items) : items[j].path # k
                 IN  table[k] = items[n].url

\* C4 witness: a document with two records for one path and different urls,
\* the table holding the later one.
C4_Witness ==
    /\ Built
    /\ \E i, j \in 1..Len(ItemsOf(last.arg)) :
          /\ i < j
          /\ ItemsOf(last.arg)[i].path = ItemsOf(last.arg)[j].path
          /\ ItemsOf(last.arg)[i].url # ItemsOf(last.arg)[j].url
          /\ last.ret.handler.table[ItemsOf(last.arg)[i].path]
                 = ItemsOf(last.arg)[j].url

\* YAMLHandler was given, or JSONFileHandler read, content that does not
\* parse.
ParseFails ==
    \/ /\ last.op = "YAMLHandler"
       /\ last.arg.kind = "malformed"
    \/ /\ last.op = "JSONFileHandler"
       /\ last.arg.exists
       /\ last.arg.bytes.kind = "malformed"

\* C5: when the content fails to parse the constructor returns an error and
\* a nil handler; no table is built and no MapHandler is created.
C5_ParseErrorGivesNilHandler ==
    ParseFails =>
        /\ last.ret.err = ParseError
        /\ last.ret.handler = Nil
        /\ \A i \in 1..Len(last.ret.steps) :
               last.ret.steps[i] \notin {"pathSliceToMapConversion", "MapHandler"}

\* C5 witness: YAMLHandler returned from a malformed document.
C5_Witness ==
    /\ ParseFails
    /\ last.op = "YAMLHandler"
    /\ last.ret.err = ParseError

\* A file constructor was called on a file that cannot be read.
Unreadable ==
    /\ last.op \in {"YAMLFileHandler", "JSONFileHandler"}
    /\ ~last.arg.exists

\* C6: when the file cannot be read, YAMLFileHandler and JSONFileHandler
\* return a file-read error and a nil handler, and nothing but openFile ran:
\* no parse, no table build, no MapHandler.
C6_ReadErrorBeforeParse ==
    Unreadable =>
        /\ last.ret.err = FileReadError
        /\ last.ret.handler = Nil
        /\ last.ret.steps = <<"openFile">>

\* C6 witness: JSONFileHandler returned from a missing file.
C6_Witness ==
    /\ Unreadable
    /\ last.op = "JSONFileHandler"
    /\ last.ret.err = FileReadError

\* Every handler of main's chain is built, each wrapping the one before.
ChainComplete ==
    /\ mux = defaultMux
    /\ mapHandler.kind = "map" /\ mapHandler.fallback = mux
    /\ yamlHandler.kind = "map" /\ yamlHandler.fallback = mapHandler
    /\ jsonFileHandler.kind = "map" /\ jsonFileHandler.fallback = yamlHandler
    /\ yamlFileHandler.kind = "map" /\ yamlFileHandler.fallback = jsonFileHandler

\* A constructor main called returned an error.
ConstructorFailed ==
    /\ last.op \in {"YAMLHandler", "JSONFileHandler", "YAMLFileHandler"}
    /\ last.ret.err # ErrNil

\* C7: startup is all-or-nothing: when a constructor returns an error main
\* panics and the process never listens or serves afterwards; the server
\* listens only with every handler of the chain built and no error, and
\* every request is served by the complete chain.
C7_StartupAllOrNothing ==
    /\ [](ConstructorFailed => pc = "panic")
    /\ [](err # ErrNil => pc = "panic")
    /\ [](pc \in {"ListenAndServe", "serving"} => (ChainComplete /\ err = ErrNil))
    /\ [](Served => (ChainComplete /\ last.handler = yamlFileHandler))
    /\ [][pc = "panic" => pc' = "panic"]_vars

\* C7 witness: the JSON file handler was built, the YAML file could not be
\* read, and main panicked.
C7_Witness ==
    /\ pc = "panic"
    /\ jsonFileHandler # Nil
    /\ yamlFileHandler = Nil
    /\ err = FileReadError

\* main's server answered a request to /urlshort.
UrlshortServed ==
    /\ pc = "serving"
    /\ Served
    /\ last.r.path = <<"urlshort">>

\* C8 as stated: in main's chain a request to /urlshort gets a 302 whose
\* Location is the GitHub url of the embedded YAML, whatever the external
\* YAML and JSON files hold.
C8_UrlshortAlwaysGitHub ==
    UrlshortServed =>
        /\ Len(last.st.writes) = 1
        /\ last.st.writes[1].status = StatusFound
        /\ last.st.writes[1].Location = GitHubURL

\* C8 amended: in main's chain a request to /urlshort gets a 302 whose
\* Location is the GitHub url of the embedded YAML, provided /urlshort is a
\* key of neither the YAML-file table nor the JSON-file table.
C8_UrlshortGitHubUnlessOverridden ==
    (/\ UrlshortServed
     /\ <<"urlshort">> \notin DOMAIN yamlFileHandler.table
     /\ <<"urlshort">> \notin DOMAIN jsonFileHandler.table) =>
        /\ Len(last.st.writes) = 1
        /\ last.st.writes[1].status = StatusFound
        /\ last.st.writes[1].Location = GitHubURL

\* C8 witness: both files hold entries, none for /urlshort, and the request
\* to /urlshort was redirected to GitHub.
C8_Witness ==
    /\ UrlshortServed
    /\ DOMAIN yamlFileHandler.table = {<<"a">>}
    /\ DOMAIN jsonFileHandler.table = {<<"a">>}
    /\ last.st.writes[1].Location = GitHubURL

\* The positions of MainChain whose table has path p.
Holders(p) == {i \in 1..Len(MainChain) : p \in DOMAIN MainChain[i].table}

\* C9: a request is resolved by the first table that has its path, in the
\* order YAML file, JSON file, embedded YAML, in-memory map, default mux: the
\* redirect is the one for that table's url and no handler behind it is
\* invoked.
C9_OutermostTableWins ==
    (pc = "serving" /\ Served) =>
        LET p == last.r.path
        IN  IF Holders(p) = {}
            THEN last.st.calls = Append(MainChain, mux)
            ELSE LET first == CHOOSE i \in Holders(p) :
                                 \A j \in Holders(p) : i <= j
                 IN  /\ last.st.calls = SubSeq(MainChain, 1, first)
                     /\ last.st.writes =
                            Redirect(EmptyExchange, last.r,
                                     MainChain[first].table[p],
                                     StatusFound).writes

\* C9 witness: the YAML file and the JSON file map the same path to
\* different urls, and the redirect is the YAML file's.
C9_Witness ==
    /\ pc = "serving"
    /\ Served
    /\ last.r.path \in DOMAIN yamlFileHandler.table
    /\ last.r.path \in DOMAIN jsonFileHandler.table
    /\ yamlFileHandler.table[last.r.path] # jsonFileHandler.table[last.r.path]
    /\ HasSchemeOrHost(yamlFileHandler.table[last.r.path])
    /\ last.st.writes[1].Location = yamlFileHandler.table[last.r.path]

\* C10: every request sent to the root handler gets exactly one response:
\* the handlers entered form a path down the chain from the root, every one
\* but the last is a MapHandler that lacks the path and wrote nothing, and
\* the last is either a MapHandler that has the path, whose 302 is the
\* response, or the default mux.
C10_ExactlyOneResponse ==
    (pc = "serving" /\ Served) =>
        LET calls == last.st.calls
            n == Len(calls)
        IN  /\ Len(last.st.writes) = 1
            /\ n >= 1
            /\ calls[1] = yamlFileHandler
            /\ \A i \in 1..(n - 1) :
                   /\ calls[i].kind = "map"
                   /\ last.r.path \notin DOMAIN calls[i].table
                   /\ calls[i + 1] = calls[i].fallback
            /\ \/ /\ calls[n].kind = "map"
                  /\ last.r.path \in DOMAIN calls[n].table
                  /\ last.st.writes[1].status = StatusFound
               \/ calls[n] = mux

\* C10 witness: the root handler delegated and an inner handler redirected.
C10_Witness ==
    /\ pc = "serving"
    /\ Served
    /\ Len(last.st.calls) = 3
    /\ Len(last.st.writes) = 1
    /\ last.st.writes[1].status = StatusFound

=============================================================================
